---- MODULE Spec2Model ----
(***************************************************************************)
(* bitpat: the `bitpat!` macro of src/src/lib.rs as a rewriting machine.   *)
(*                                                                         *)
(* A state is one `bitpat!( ... )` invocation under expansion (`inv`, a    *)
(* sequence of token trees), its expansion depth, and, once the expansion  *)
(* has produced the closure `|value| value & (relevant) == (ones)`, the    *)
(* calls made on it.  There is one action per macro rule.  The mask        *)
(* expressions `($relevant << 1 | bit)` are carried by their value in the  *)
(* W-bit integer type that type inference gives the closure's argument.    *)
(***************************************************************************)
EXTENDS Integers, Sequences, FiniteSets

VARIABLES input, W, inv, depth, pc, out, value, matched

vars == <<input, W, inv, depth, pc, out, value, matched>>

(* ------------------------------ bounds --------------------------------- *)
\* widest integer type the closure is applied to
MaxWidth == 3
\* longest well-formed pattern (longer than MaxWidth, so truncation happens)
MaxLen == 4
\* longest invocation drawn over all tokens, well-formed or not
MaxBadLen == 3
\* longest bracket group of a directly written `@build R O [...]` invocation
MaxGroupLen == 2
\* expansion depth at which the compiler gives up (rustc: recursion_limit)
RecursionLimit == MaxLen + 4

(* ---------------------------- token trees ------------------------------ *)
\* a single token
Tok(t) == [text |-> t, body |-> <<>>, val |-> 0]
\* a bracket group `[ ... ]`: one token tree
Group(b) == [text |-> "[]", body |-> b, val |-> 0]
\* a parenthesised mask expression, carried by its W-bit value
Expr(n) == [text |-> "()", body |-> <<>>, val |-> n]
\* a parenthesised expression over something that is no integer expression
BadExpr == [text |-> "(x)", body |-> <<>>, val |-> 0]

PatTokens == {"1", "0", "_"}
FlatTokens == PatTokens \cup {"x", "@", "build", "relevant", "is_one"}

RECURSIVE SeqsUpTo(_, _)
SeqsUpTo(S, n) ==
  IF n = 0 THEN {<<>>}
  ELSE LET shorter == SeqsUpTo(S, n - 1)
       IN  shorter \cup {Append(s, x) : s \in {t \in shorter : Len(t) = n - 1}, x \in S}

TokSeqs(S, n) == {[i \in 1..Len(s) |-> Tok(s[i])] : s \in SeqsUpTo(S, n)}

\* the invocations a caller can write
Patterns == TokSeqs(PatTokens, MaxLen)
FlatInputs == TokSeqs(FlatTokens, MaxBadLen)
BuildInputs ==
  {<<Tok("@"), Tok("build"), Tok(r), Tok(o), Group(b)>> :
     r \in {"0", "1", "x"}, o \in {"0", "1", "x"},
     b \in TokSeqs(PatTokens \cup {"x"}, MaxGroupLen)}
Inputs == Patterns \cup FlatInputs \cup BuildInputs

(* --------------------------- W-bit arithmetic -------------------------- *)
Bit(n, i) == (n \div (2 ^ i)) % 2

RECURSIVE AndN(_, _, _)
AndN(a, b, n) ==
  IF n = 0 THEN 0
  ELSE (a % 2) * (b % 2) + 2 * AndN(a \div 2, b \div 2, n - 1)

RECURSIVE OrN(_, _, _)
OrN(a, b, n) ==
  IF n = 0 THEN 0
  ELSE (IF a % 2 = 1 \/ b % 2 = 1 THEN 1 ELSE 0) + 2 * OrN(a \div 2, b \div 2, n - 1)

\* `a & b`, `a | b`, `!a` in a w-bit unsigned type
BitAnd(a, b, w) == AndN(a, b, w)
BitOr(a, b, w) == OrN(a, b, w)
BitNot(a, w) == (2 ^ w) - 1 - a

\* `a << 1` keeping the bit shifted out of the top, as a rotation would
ShlRotate(a, w) == ((a * 2) % (2 ^ w)) + ((a * 2) \div (2 ^ w))
\* `a << 1` saturating at the type's largest value
ShlSaturate(a, w) == IF a * 2 >= 2 ^ w THEN (2 ^ w) - 1 ELSE a * 2
\* `a << 1` in a w-bit type: the bit shifted out of the top is dropped
Shl1(a, w) == (a * 2) % (2 ^ w)

(* ------------------------------ the rules ------------------------------ *)
\* rules `@relevant` with the `_` rule answering 1
RelevantBitAll(t) == IF t \in PatTokens THEN 1 ELSE 0
\* rules `@relevant` with the `1` rule answering 0
RelevantBitNoOne(t) == IF t = "0" THEN 1 ELSE 0
\* ( @relevant _ ) => 0 ; ( @relevant 0 ) => 1 ; ( @relevant 1 ) => 1
RelevantBit(t) == IF t = "_" THEN 0 ELSE 1

\* rules `@is_one` with the `0` rule answering 1
IsOneBitZero(t) == IF t = "_" THEN 0 ELSE 1
\* ( @is_one _ ) => 0 ; ( @is_one 0 ) => 0 ; ( @is_one 1 ) => 1
IsOneBit(t) == IF t = "1" THEN 1 ELSE 0

\* `$acc | bit` without the shift
StepNoShift(acc, bit, w) == BitOr(acc, bit, w)
\* `$acc << 1 | bit`
Step(acc, bit, w) == BitOr(Shl1(acc, w), bit, w)

\* the closure's body with the comparison against `relevant`
ClosureBodyRel(v, r, o, w) == BitAnd(v, r, w) = r
\* |value| value & ($relevant) == ($ones)
ClosureBody(v, r, o, w) == BitAnd(v, r, w) = o

\* the accumulators the entry point starts from, `relevant` starting at 1
EntryAccOne == <<Tok("1"), Tok("0")>>
\* bitpat!(@build 0 0 [...])
EntryAcc == <<Tok("0"), Tok("0")>>

\* whether a token tree is an integer expression, and its value
Evaluable(t) == t.text \in {"0", "1", "()"}
Value(t) == IF t.text = "()" THEN t.val ELSE IF t.text = "1" THEN 1 ELSE 0

\* ( @build $relevant:tt $ones:tt [ ... ] ): the shape of rules 1 and 2
IsBuild(i) ==
  /\ Len(i) = 5
  /\ i[1].text = "@"
  /\ i[2].text = "build"
  /\ i[5].text = "[]"
BuildDoneMatches(i) == IsBuild(i) /\ Len(i[5].body) = 0
BuildStepMatches(i) == IsBuild(i) /\ Len(i[5].body) >= 1
\* ( @relevant t ) and ( @is_one t ) for t one of _ 0 1
RelevantMatches(i) ==
  Len(i) = 3 /\ i[1].text = "@" /\ i[2].text = "relevant" /\ i[3].text \in PatTokens
IsOneMatches(i) ==
  Len(i) = 3 /\ i[1].text = "@" /\ i[2].text = "is_one" /\ i[3].text \in PatTokens
InternalMatches(i) ==
  BuildDoneMatches(i) \/ BuildStepMatches(i) \/ RelevantMatches(i) \/ IsOneMatches(i)
\* an entry point taking zero or more token trees
EntryArityAny(i) == Len(i) >= 0
\* ( $($part:tt)+ ): one or more token trees
EntryArity(i) == Len(i) >= 1
EntryMatches(i) == EntryArity(i) /\ ~InternalMatches(i)

\* the accumulator token tree after one more token
NextAcc(acc, bit) ==
  IF Evaluable(acc) THEN Expr(Step(Value(acc), bit, W)) ELSE BadExpr

(* ------------------------------ the machine ---------------------------- *)
Init ==
  /\ input \in Inputs
  /\ W \in 1..MaxWidth
  /\ inv = input
  /\ depth = 0
  /\ pc = "expanding"
  /\ out = 0
  /\ value = 0
  /\ matched = FALSE

CanExpand == pc = "expanding" /\ depth < RecursionLimit

\* Entry point: ( $($part:tt)+ ) => bitpat!(@build 0 0 [$($part)+])
Entry ==
  /\ CanExpand
  /\ EntryMatches(inv)
  /\ inv' = <<Tok("@"), Tok("build"), EntryAcc[1], EntryAcc[2], Group(inv)>>
  /\ depth' = depth + 1
  /\ UNCHANGED <<input, W, pc, out, value, matched>>

\* ( @build $relevant $ones [$next $($rest)*] ), $next one of _ 0 1: the nested
\* bitpat!(@relevant $next) and bitpat!(@is_one $next) expand to their literal
BuildStep ==
  /\ CanExpand
  /\ BuildStepMatches(inv)
  /\ Head(inv[5].body).text \in PatTokens
  /\ LET next == Head(inv[5].body).text
         rest == Tail(inv[5].body)
     IN  inv' = <<inv[1], inv[2], NextAcc(inv[3], RelevantBit(next)),
                  NextAcc(inv[4], IsOneBit(next)), Group(rest)>>
  /\ depth' = depth + 1
  /\ UNCHANGED <<input, W, pc, out, value, matched>>

\* ( @build ... [$next ...] ), $next any other token tree: the nested
\* bitpat!(@relevant $next) matches no internal rule and is itself expanded
\* (by the entry point); the expansion as a whole fails if that one does
BuildStepNested ==
  /\ CanExpand
  /\ BuildStepMatches(inv)
  /\ Head(inv[5].body).text \notin PatTokens
  /\ inv' = <<Tok("@"), Tok("relevant"), Head(inv[5].body)>>
  /\ depth' = depth + 1
  /\ UNCHANGED <<input, W, pc, out, value, matched>>

\* ( @build $relevant $ones [] ) => |value| value & ($relevant) == ($ones)
\* the closure compiles when both masks are integer expressions
BuildDone ==
  /\ pc = "expanding"
  /\ BuildDoneMatches(inv)
  /\ pc' = IF Evaluable(inv[3]) /\ Evaluable(inv[4]) THEN "closure" ELSE "rejected"
  /\ UNCHANGED <<input, W, inv, depth, out, value, matched>>

\* ( @relevant t ) => bit
ExpandRelevant ==
  /\ pc = "expanding"
  /\ RelevantMatches(inv)
  /\ pc' = "literal"
  /\ out' = RelevantBit(inv[3].text)
  /\ UNCHANGED <<input, W, inv, depth, value, matched>>

\* ( @is_one t ) => bit
ExpandIsOne ==
  /\ pc = "expanding"
  /\ IsOneMatches(inv)
  /\ pc' = "literal"
  /\ out' = IsOneBit(inv[3].text)
  /\ UNCHANGED <<input, W, inv, depth, value, matched>>

\* no rule takes the invocation: a compile error
NoRule ==
  /\ pc = "expanding"
  /\ ~InternalMatches(inv)
  /\ ~EntryMatches(inv)
  /\ pc' = "rejected"
  /\ UNCHANGED <<input, W, inv, depth, out, value, matched>>

\* the expansion recursed to the limit: a compile error
RecursionExceeded ==
  /\ pc = "expanding"
  /\ depth >= RecursionLimit
  /\ EntryMatches(inv) \/ BuildStepMatches(inv)
  /\ pc' = "rejected"
  /\ UNCHANGED <<input, W, inv, depth, out, value, matched>>

Relevant == Value(inv[3])
Ones == Value(inv[4])

\* the closure applied to a W-bit value
Call ==
  /\ pc \in {"closure", "called"}
  /\ \E v \in 0..(2 ^ W - 1) :
       /\ value' = v
       /\ matched' = ClosureBody(v, Relevant, Ones, W)
  /\ pc' = "called"
  /\ UNCHANGED <<input, W, inv, depth, out>>

Next ==
  \/ Entry
  \/ BuildStep
  \/ BuildStepNested
  \/ BuildDone
  \/ ExpandRelevant
  \/ ExpandIsOne
  \/ NoRule
  \/ RecursionExceeded
  \/ Call

Spec == Init /\ [][Next]_vars

(* ------------------------ the macro as a function ---------------------- *)
\* the masks rule 2 builds from accumulators r, o over the tokens p, in w bits
RECURSIVE BuildMasks(_, _, _, _)
BuildMasks(r, o, p, w) ==
  IF p = <<>> THEN <<r, o>>
  ELSE BuildMasks(Step(r, RelevantBit(Head(p).text), w),
                  Step(o, IsOneBit(Head(p).text), w), Tail(p), w)

\* bitpat!(p)(v) for a pattern p and a w-bit value v
Bitpat(p, v, w) ==
  LET m == BuildMasks(Value(EntryAcc[1]), Value(EntryAcc[2]), p, w)
  IN  ClosureBody(v, m[1], m[2], w)

(* ------------------------- vocabulary of the claims -------------------- *)
\* the invocation is a pattern: one or more tokens, each 1, 0 or _
IsPattern(i) == Len(i) >= 1 /\ \A k \in 1..Len(i) : i[k].text \in PatTokens
L == Len(input)
\* a pattern's masks exist: the entry point has run
MasksExist ==
  /\ IsPattern(input)
  /\ depth >= 1
  /\ pc \in {"expanding", "closure", "called"}
\* a pattern's closure has been called on `value`
Called == IsPattern(input) /\ pc = "called"
\* tokens consumed by rule 2 so far, and the prefix they form
Consumed == L - Len(inv[5].body)
Prefix == SubSeq(input, 1, Consumed)
Values == 0..(2 ^ W - 1)
\* n tokens `_`
Pad(n) == [i \in 1..n |-> Tok("_")]
\* the masks accumulated in unbounded arithmetic
RECURSIVE UnboundedRelevant(_)
UnboundedRelevant(p) ==
  IF p = <<>> THEN 0
  ELSE 2 * UnboundedRelevant(SubSeq(p, 1, Len(p) - 1))
       + (IF p[Len(p)].text \in {"1", "0"} THEN 1 ELSE 0)
RECURSIVE UnboundedOnes(_)
UnboundedOnes(p) ==
  IF p = <<>> THEN 0
  ELSE 2 * UnboundedOnes(SubSeq(p, 1, Len(p) - 1))
       + (IF p[Len(p)].text = "1" THEN 1 ELSE 0)
\* the bitwise reading of a pattern: token i from the right constrains bit i
BitwiseMatch(p, v) ==
  \A i \in 0..(Len(p) - 1) :
    /\ p[Len(p) - i].text = "1" => Bit(v, i) = 1
    /\ p[Len(p) - i].text = "0" => Bit(v, i) = 0

(* -------------------------------- claims ------------------------------- *)
\* C1: for a pattern of L tokens, 1 <= L <= W, the predicate is true exactly
\* when every bit i < L of the value is 1 where the i-th token from the right
\* is `1` and 0 where it is `0`; the result is (value & relevant) == ones.
C1_BitwiseMatch ==
  (Called /\ L <= W) =>
    /\ matched <=> BitwiseMatch(input, value)
    /\ matched <=> (BitAnd(value, Relevant, W) = Ones)
C1_Witness ==
  /\ Called /\ L <= W /\ L >= 2 /\ matched
  /\ \E k \in 1..L : input[k].text = "1"
  /\ \E k \in 1..L : input[k].text = "0"

\* C2: with L < W the pattern applies to the low L bits: values that agree on
\* bits 0..L-1 get the same result, which is the result of the pattern padded
\* on the left with W-L tokens `_`.
C2_PaddedLeft ==
  (Called /\ L < W) =>
    /\ \A v2 \in Values :
         (v2 % (2 ^ L) = value % (2 ^ L)) =>
           (ClosureBody(v2, Relevant, Ones, W) <=> matched)
    /\ matched <=> Bitpat(Pad(W - L) \o input, value, W)
C2_Witness ==
  /\ Called /\ L < W /\ matched
  /\ value >= 2 ^ L
  /\ \E k \in 1..L : input[k].text # "_"

\* C3: with L > W the result is that of the pattern's last W tokens; the
\* leading L-W tokens change nothing and the expansion does not fail.
C3_Truncated ==
  (IsPattern(input) /\ L > W) =>
    /\ pc # "rejected"
    /\ pc = "called" => (matched <=> Bitpat(SubSeq(input, L - W + 1, L), value, W))
C3_Witness ==
  /\ Called /\ L > W /\ matched
  /\ input[1].text = "0"
  /\ value = 2 ^ W - 1

C5_OnlyPatternsAccepted ==
  pc \in {"closure", "called", "literal"} =>
    \A k \in 1..Len(input) : input[k].text \in PatTokens

\* C6: a pattern of `_` tokens only matches every value, whatever L and W.
C6_AllDontCare ==
  (Called /\ \A k \in 1..L : input[k].text = "_") => matched
C6_Witness ==
  /\ Called /\ L > W /\ matched
  /\ \A k \in 1..L : input[k].text = "_"
  /\ value = 2 ^ W - 1

\* C7: after k tokens, for every bit i < W: bit i of `relevant` is 1 iff i < k
\* and the i-th token from the right of the k-token prefix is 1 or 0, and bit
\* i of `ones` is 1 iff i < k and that token is 1; the accumulators are the
\* masks of the prefix.
C7_MaskBits ==
  MasksExist =>
    /\ Relevant \in Values /\ Ones \in Values
    /\ \A i \in 0..(W - 1) :
         /\ Bit(Relevant, i) = 1 <=> (i < Consumed /\ input[Consumed - i].text \in {"1", "0"})
         /\ Bit(Ones, i) = 1 <=> (i < Consumed /\ input[Consumed - i].text = "1")
    /\ <<Relevant, Ones>> = BuildMasks(0, 0, Prefix, W)
C7_Witness ==
  /\ MasksExist /\ pc = "expanding"
  /\ Consumed >= 2 /\ Consumed < L
  /\ Ones # 0 /\ Relevant # Ones

\* C8: in every state of the accumulation, for patterns of any length,
\* ones & !relevant == 0.
C8_OnesWithinRelevant ==
  MasksExist => BitAnd(Ones, BitNot(Relevant, W), W) = 0
C8_Witness ==
  /\ MasksExist /\ Consumed > W
  /\ Ones # 0 /\ Relevant # Ones

\* C9: after every token the W-bit accumulators equal the unbounded
\* accumulators modulo 2^W, so both give the same predicate.
C9_WrapIsMod ==
  MasksExist =>
    /\ Relevant = UnboundedRelevant(Prefix) % (2 ^ W)
    /\ Ones = UnboundedOnes(Prefix) % (2 ^ W)
    /\ \A v \in Values :
         ClosureBody(v, Relevant, Ones, W) <=>
           ClosureBody(v, UnboundedRelevant(Prefix) % (2 ^ W),
                       UnboundedOnes(Prefix) % (2 ^ W), W)
C9_Witness ==
  /\ MasksExist /\ Consumed > W
  /\ UnboundedOnes(Prefix) >= 2 ^ W
  /\ Ones # UnboundedOnes(Prefix)

\* C10: for non-empty P and Q with |P| + |Q| <= W, the predicate of P Q is
\* true on v iff the predicate of Q is true on v and the predicate of P is
\* true on v shifted right by |Q|.
C10_Concatenation ==
  (Called /\ L <= W) =>
    \A j \in 1..(L - 1) :
      matched <=> /\ Bitpat(SubSeq(input, j + 1, L), value, W)
                  /\ Bitpat(SubSeq(input, 1, j), value \div (2 ^ (L - j)), W)
C10_Witness ==
  /\ Called /\ L <= W /\ L >= 3 /\ matched
  /\ input[1].text = "1"
  /\ input[L].text = "0"

====
